---- MODULE Spec2Model ----
(***************************************************************************)
(* A model of one Observable instance (observable/Observable.ts): its      *)
(* fields, its public operations and the completion handlers fetch()       *)
(* attaches to the promise of the underlying call.                         *)
(*                                                                         *)
(* JavaScript runs each handler to completion, so every operation and      *)
(* every promise reaction is one atomic action.  dispatchEvent() is        *)
(* synchronous: what the listeners see at the moment of a notification is  *)
(* recorded as a snapshot of the fields taken at that point of the         *)
(* handler.                                                                *)
(***************************************************************************)
EXTENDS Naturals, Sequences, FiniteSets, Bags

VARIABLES
    data,              \* Observable.data
    error,             \* Observable.error
    isAwake,           \* Observable.isAwake
    isLoading,         \* Observable.isLoading
    isLazy,            \* Observable.isLazy
    params,            \* Observable.params
    lastLoadedParams,  \* Observable.lastLoadedParams
    pending,           \* bag of promises of this.cb(...) not yet settled
    issued,            \* history: number of times this.cb was invoked
    refetched,         \* history: whether refetch was ever called
    mocked,            \* history: whether lastLoadedParams ever was "MOCKING"
    hist,              \* history: the handlers run so far, up to MaxHist
    lastOp,            \* history: the handler that ran last
    emitted,           \* history: notifications the last handler dispatched
    called,            \* history: arguments the last handler passed to cb
    bindings,          \* useObservable: per component, its listeners and meta
    named,             \* keys of NAMED_OBSERVABLES that hold this instance
    loaded,            \* ObservableLoader: loaded.current is set
    rendered           \* ObservableLoader: what its last render returned

fields == <<data, error, isAwake, isLoading, isLazy, params, lastLoadedParams>>
vars == <<data, error, isAwake, isLoading, isLazy, params, lastLoadedParams,
          pending, issued, refetched, mocked, hist, lastOp, emitted, called,
          bindings, named, loaded, rendered>>

----------------------------------------------------------------------------
(* Bounds *)

\* the underlying call is invoked at most MaxIssued times in a behaviour
MaxIssued == 2
\* hist records the operations and completions up to this length
MaxHist == 3

----------------------------------------------------------------------------
(* Values *)

\* JavaScript's undefined
Undef == "undefined"

\* params: undefined, an object reference, the sentinel string
Mocking == "MOCKING"
ParamVals == {Undef, "p1", Mocking}

\* data: undefined, a falsy value (null, 0, ""), an empty array (truthy),
\* a caller-supplied seed, and the results of the underlying call
Falsy == "falsy"
EmptyArr == "[]"
Seed == "seed"
ResultOf(p) == "rows(" \o p \o ")"
DataVals == {Undef, Falsy, EmptyArr, Seed} \cup {ResultOf(p) : p \in ParamVals}

\* what the promise of this.cb(p) may resolve with: res.data is optional
ResolveVals(p) == {ResultOf(p), Undef}
\* what it may reject with
RejectVals == {"This is an error"}
\* what a throwing per-call callback throws
CbError == "thrown by cb"

\* the optional per-call callback: absent, returning, or throwing
NoCb == "none"
CbKinds == {NoCb, "returns", "throws"}

\* JavaScript truthiness, as used by `if (data)` and `!this.data`
Truthy(d) == d \notin {Undef, Falsy}

----------------------------------------------------------------------------
(* History bookkeeping *)

Overflow == <<"...">>
Record(tag) ==
    IF hist = Overflow \/ Len(hist) >= MaxHist THEN Overflow
    ELSE Append(hist, tag)

\* op: the handler; arg: the value given to setData, or the value the promise
\* settled with; src: for a completion, the operation that issued the request;
\* out: "returned", "threw" (to the caller) or "caught" (a throw of the
\* per-call callback that the catch handler took)
Op(op, arg, src, out) == [op |-> op, arg |-> arg, src |-> src, out |-> out]

\* a notification as a listener sees it: the fields at dispatch time
Note(type, d, e, l, cbDone) ==
    [type |-> type, data |-> d, error |-> e, isLoading |-> l, cbDone |-> cbDone]

Request(p, cb, src) == [p |-> p, cb |-> cb, src |-> src]

\* the components that call useObservable with this instance
Bindings == {"b1", "b2"}
\* testId: the default, and an identifier that names the observable
DefaultId == "default"
TestIds == {DefaultId, "rows"}
\* params given to the hook: none, or an object
HookParams == {Undef, "p1"}

\* ObservableMeta
Meta(d, e, l) == [data |-> d, error |-> e, isLoading |-> l]
FieldsMeta == Meta(data, error, isLoading)
NoMeta == Meta(Undef, Undef, FALSE)
Unbound == [attached |-> FALSE, id |-> DefaultId, meta |-> NoMeta]

----------------------------------------------------------------------------
Init ==
    /\ data = Undef
    /\ error = Undef
    /\ isAwake = FALSE
    /\ isLoading = FALSE
    /\ isLazy = FALSE
    /\ params = Undef
    /\ lastLoadedParams = Undef
    /\ pending = EmptyBag
    /\ issued = 0
    /\ refetched = FALSE
    /\ mocked = FALSE
    /\ hist = <<>>
    /\ lastOp = Op("new", Undef, "-", "returned")
    /\ emitted = <<>>
    /\ called = <<>>
    /\ bindings = [b \in Bindings |-> Unbound]
    /\ named = {}
    /\ loaded = FALSE
    /\ rendered = "nothing"

----------------------------------------------------------------------------
(* dataListener: every attached component calls setMeta with an updater that
   reads the observable's fields.  React runs the updater either at once (at
   the dispatch) or when it next renders the component (after the handler):
   both are outcomes. *)
Deliver(bnd) ==
    IF emitted' = <<>> \/ \A b \in Bindings : ~bnd[b].attached
    THEN bindings' = bnd
    ELSE \E how \in [Bindings -> {"dispatch", "render"}] :
            bindings' =
                [b \in Bindings |->
                    IF ~bnd[b].attached THEN bnd[b]
                    ELSE [bnd[b] EXCEPT !.meta =
                            IF how[b] = "dispatch"
                            THEN LET n == emitted'[Len(emitted')]
                                 IN  Meta(n.data, n.error, n.isLoading)
                            ELSE FieldsMeta']]

(* what a handler of the observable leaves of the components' state *)
Listeners ==
    /\ Deliver(bindings)
    /\ UNCHANGED <<named, loaded, rendered>>

----------------------------------------------------------------------------
(* setParams *)
SetParams(p) ==
    /\ params' = p
    /\ hist' = Record("setParams")
    /\ lastOp' = Op("setParams", Undef, "-", "returned")
    /\ emitted' = <<>>
    /\ called' = <<>>
    /\ UNCHANGED <<data, error, isAwake, isLoading, isLazy, lastLoadedParams,
                   pending, issued, refetched, mocked>>
    /\ Listeners

(* fetch: invoke the underlying call and leave its promise pending.  The
   reactions attached to the promise are Resolve and Reject below. *)
Fetch(p, cb, src) ==
    /\ params' = p
    /\ pending' = pending (+) SetToBag({Request(p, cb, src)})
    /\ issued' = issued + 1

(* load: the early return while a load is in progress *)
\* (without the guard: LoadDroppedNever)
LoadDroppedNever == FALSE
LoadDropped == isLoading

(* load: the test that skips the underlying call *)
\* (a test that forgot `!reload`: LoadSkipsIgnoringReload; a test that also
\* looked at the error: LoadSkipsOnError; a test without the sentinel:
\* LoadSkipsWithoutSentinel)
LoadSkipsWithoutSentinel(reload) == ~reload /\ params = lastLoadedParams
LoadSkipsIgnoringReload(reload) ==
    params = lastLoadedParams \/ lastLoadedParams = Mocking
LoadSkipsOnError(reload) ==
    \/ (~reload /\ params = lastLoadedParams /\ error = Undef)
    \/ lastLoadedParams = Mocking
LoadSkips(reload) ==
    \/ (~reload /\ params = lastLoadedParams)
    \/ lastLoadedParams = Mocking

(* load: in the skipping branch the cached data is replayed to the callback *)
LoadReplays == lastLoadedParams = Mocking /\ Truthy(data)

LoadFetches(reload) == ~LoadDropped /\ ~LoadSkips(reload)

(* load(reload, cb), called as the operation named tag *)
Load(reload, cb, tag) ==
    /\ LoadFetches(reload) => issued < MaxIssued
    /\ hist' = Record(tag)
    /\ IF LoadDropped THEN
          /\ lastOp' = Op(tag, Undef, "-", "returned")
          /\ emitted' = <<>>
          /\ called' = <<>>
          /\ UNCHANGED <<fields, pending, issued, refetched, mocked>>
       ELSE IF LoadSkips(reload) THEN
          /\ isAwake' = TRUE
          /\ called' = IF LoadReplays /\ cb # NoCb THEN <<data>> ELSE <<>>
          /\ lastOp' = Op(tag, Undef, "-",
                          IF LoadReplays /\ cb = "throws" THEN "threw"
                          ELSE "returned")
          /\ emitted' = <<>>
          /\ UNCHANGED <<data, error, isLoading, isLazy, params,
                         lastLoadedParams, pending, issued, refetched, mocked>>
       ELSE
          /\ isAwake' = TRUE
          /\ lastLoadedParams' = params
          /\ error' = Undef
          /\ isLoading' = TRUE
          /\ emitted' = <<Note("loading", data, Undef, TRUE, FALSE)>>
          /\ Fetch(params, cb, "load")
          /\ called' = <<>>
          /\ lastOp' = Op(tag, Undef, "-", "returned")
          /\ mocked' = (mocked \/ params = Mocking)
          /\ UNCHANGED <<data, isLazy, refetched>>
    /\ Listeners

(* load() and load(false, cb) *)
LoadOp(cb) == Load(FALSE, cb, "load")

(* reload *)
Reload == Load(TRUE, NoCb, "reload")

(* do *)
Do(cb) == Load(TRUE, cb, "do")

(* awaken *)
\* (without the isAwake test: AwakenAlways)
AwakenAlways == Load(TRUE, NoCb, "awaken")
Awaken ==
    IF ~isAwake THEN Load(TRUE, NoCb, "awaken")
    ELSE /\ hist' = Record("awaken")
         /\ lastOp' = Op("awaken", Undef, "-", "returned")
         /\ emitted' = <<>>
         /\ called' = <<>>
         /\ UNCHANGED <<fields, pending, issued, refetched, mocked>>
         /\ Listeners

(* refetch *)
Refetch(cb) ==
    /\ issued < MaxIssued
    /\ lastLoadedParams' = params
    /\ Fetch(params, cb, "refetch")
    /\ refetched' = TRUE
    /\ mocked' = (mocked \/ params = Mocking)
    /\ hist' = Record("refetch")
    /\ lastOp' = Op("refetch", Undef, "-", "returned")
    /\ emitted' = <<>>
    /\ called' = <<>>
    /\ UNCHANGED <<data, error, isAwake, isLoading, isLazy>>
    /\ Listeners

(* setData: the isAwake it leaves *)
\* (an unconditional isAwake = true: AwakeAfterSetDataAlways)
AwakeAfterSetDataAlways(d) == TRUE
AwakeAfterSetData(d) == IF Truthy(d) THEN TRUE ELSE isAwake

(* setData: the notification it dispatches, after the assignments *)
SetDataNote(d) == Note("data", d, error, isLoading, FALSE)

(* setData(d) called by the caller *)
SetData(d) ==
    /\ isAwake' = AwakeAfterSetData(d)
    /\ data' = d
    /\ emitted' = <<SetDataNote(d)>>
    /\ hist' = Record("setData")
    /\ lastOp' = Op("setData", d, "-", "returned")
    /\ called' = <<>>
    /\ UNCHANGED <<error, isLoading, isLazy, params, lastLoadedParams,
                   pending, issued, refetched, mocked>>
    /\ Listeners

(* the lazy accessor; no property below reads isLazy, and Next leaves it out *)
Lazy ==
    /\ isLazy' = TRUE
    /\ hist' = Record("lazy")
    /\ lastOp' = Op("lazy", Undef, "-", "returned")
    /\ emitted' = <<>>
    /\ called' = <<>>
    /\ UNCHANGED <<data, error, isAwake, isLoading, params, lastLoadedParams,
                   pending, issued, refetched, mocked>>
    /\ Listeners

(* the ensured accessor: whether it throws *)
\* (without the data test: EnsuredThrowsOnlyAsleep)
EnsuredThrowsOnlyAsleep == ~isAwake
EnsuredThrows == ~isAwake \/ ~Truthy(data)

Ensured ==
    /\ hist' = Record("ensured")
    /\ lastOp' = Op("ensured", Undef, "-",
                    IF EnsuredThrows THEN "threw" ELSE "returned")
    /\ emitted' = <<>>
    /\ called' = <<>>
    /\ UNCHANGED <<fields, pending, issued, refetched, mocked>>
    /\ Listeners

----------------------------------------------------------------------------
(* The reactions fetch() attaches: .then(...).catch(...) *)

(* the rejection handler: the data it leaves *)
\* (a handler that dropped the stale data: DataAfterRejectCleared)
DataAfterRejectCleared == Undef
DataAfterReject == data

(* the catch handler, for a rejection of the call or a throw in .then *)
Caught(d, e) == Note("error", d, e, FALSE, FALSE)

(* the then handler: the error it leaves, unless the callback throws *)
\* (without `this.error = undefined`: ErrorAfterThenKept)
ErrorAfterThenKept == error
ErrorAfterThen == Undef

(* the promise of request r resolves with res.data = res: setData(res)
   dispatches "data" first, then error and isLoading are cleared and the
   per-call callback runs; what the callback throws goes to the catch handler *)
Resolve(r, res) ==
    /\ pending' = pending (-) SetToBag({r})
    /\ isAwake' = AwakeAfterSetData(res)
    /\ data' = res
    /\ called' = IF r.cb # NoCb THEN <<res>> ELSE <<>>
    /\ IF r.cb = "throws" THEN
          /\ error' = CbError
          /\ emitted' = <<SetDataNote(res), Caught(res, CbError)>>
          /\ lastOp' = Op("resolve", res, r.src, "caught")
       ELSE
          /\ error' = ErrorAfterThen
          /\ emitted' = <<SetDataNote(res)>>
          /\ lastOp' = Op("resolve", res, r.src, "returned")
    /\ isLoading' = FALSE
    /\ hist' = Record("resolve")
    /\ UNCHANGED <<isLazy, params, lastLoadedParams, issued, refetched, mocked>>
    /\ Listeners

(* the catch handler: the isLoading it leaves *)
\* (without `this.isLoading = false`: LoadingAfterCatchKept)
LoadingAfterCatchKept == isLoading
LoadingAfterCatch == FALSE

(* the promise of request r rejects with e *)
Reject(r, e) ==
    /\ pending' = pending (-) SetToBag({r})
    /\ data' = DataAfterReject
    /\ error' = e
    /\ isLoading' = LoadingAfterCatch
    /\ emitted' = <<Caught(DataAfterReject, e)>>
    /\ called' = <<>>
    /\ lastOp' = Op("reject", e, r.src, "returned")
    /\ hist' = Record("reject")
    /\ UNCHANGED <<isAwake, isLazy, params, lastLoadedParams, issued, refetched, mocked>>
    /\ Listeners

----------------------------------------------------------------------------
SetParamsStep == \E p \in ParamVals : SetParams(p)
LoadStep == \E cb \in CbKinds : LoadOp(cb)
DoStep == \E cb \in CbKinds : Do(cb)
RefetchStep == \E cb \in CbKinds : Refetch(cb)
SetDataStep == \E d \in {Undef, Falsy, EmptyArr, Seed} : SetData(d)
ResolveStep ==
    \E r \in BagToSet(pending) : \E res \in ResolveVals(r.p) : Resolve(r, res)
RejectStep ==
    \E r \in BagToSet(pending) : \E e \in RejectVals : Reject(r, e)

Next ==
    \/ SetParamsStep
    \/ LoadStep
    \/ Reload
    \/ DoStep
    \/ Awaken
    \/ RefetchStep
    \/ SetDataStep
    \/ Ensured
    \/ ResolveStep
    \/ RejectStep

Spec == Init /\ [][Next]_vars

(* Every promise of the underlying call settles: Rows.getRows resolves or
   rejects when its timer fires *)
SettleStep == ResolveStep \/ RejectStep

(* The operations that bear on isLoading; a per-call callback matters to it
   only by throwing, do is load(true, cb), and ensured reads without writing *)
LiveCbKinds == {NoCb, "throws"}
NextLive ==
    \/ SetParamsStep
    \/ \E cb \in LiveCbKinds : LoadOp(cb)
    \/ Reload
    \/ Awaken
    \/ \E cb \in LiveCbKinds : Refetch(cb)
    \/ SetDataStep
    \/ ResolveStep
    \/ RejectStep

SpecFair == Init /\ [][NextLive]_vars /\ WF_vars(SettleStep)

(* An instance used through setParams, load, reload, do and refetch only,
   whose calls all resolve *)
NextFetching ==
    \/ SetParamsStep
    \/ LoadStep
    \/ Reload
    \/ DoStep
    \/ RefetchStep
    \/ ResolveStep

SpecFetching == Init /\ [][NextFetching]_vars

----------------------------------------------------------------------------
(* The hooks *)

(* setParams(p).load(true, cb) in one handler, recorded as the operation tag
   called with arg *)
ForcedLoadWith(p, cb, tag, arg) ==
    /\ (~LoadDropped /\ ~LoadSkips(TRUE)) => issued < MaxIssued
    /\ hist' = Record(tag)
    /\ IF LoadDropped THEN
          /\ params' = p
          /\ lastOp' = Op(tag, arg, "-", "returned")
          /\ emitted' = <<>>
          /\ called' = <<>>
          /\ UNCHANGED <<data, error, isAwake, isLoading, isLazy,
                         lastLoadedParams, pending, issued, refetched, mocked>>
       ELSE IF LoadSkips(TRUE) THEN
          /\ params' = p
          /\ isAwake' = TRUE
          /\ called' = IF LoadReplays /\ cb # NoCb THEN <<data>> ELSE <<>>
          /\ lastOp' = Op(tag, arg, "-",
                          IF LoadReplays /\ cb = "throws" THEN "threw"
                          ELSE "returned")
          /\ emitted' = <<>>
          /\ UNCHANGED <<data, error, isLoading, isLazy,
                         lastLoadedParams, pending, issued, refetched, mocked>>
       ELSE
          /\ isAwake' = TRUE
          /\ lastLoadedParams' = p
          /\ error' = Undef
          /\ isLoading' = TRUE
          /\ emitted' = <<Note("loading", data, Undef, TRUE, FALSE)>>
          /\ Fetch(p, cb, "load")
          /\ called' = <<>>
          /\ lastOp' = Op(tag, arg, "-", "returned")
          /\ mocked' = (mocked \/ p = Mocking)
          /\ UNCHANGED <<data, isLazy, refetched>>

(* useObservable, attach effect: whether it calls load(true) *)
\* (without the isLazy test: AttachLoadsIgnoringLazy)
AttachLoadsIgnoringLazy == ~isAwake
AttachLoads == ~isAwake /\ ~isLazy

(* useObservable(observable, p, id) in component b, first render and its
   effects: setParams if p is given, the registry entry, the initial meta, the
   listeners, and the initial load *)
Attach(b, p, id) ==
    LET p2 == IF p # Undef THEN p ELSE params
        bnd == [bindings EXCEPT
                   ![b] = [attached |-> TRUE, id |-> id, meta |-> FieldsMeta]]
    IN  /\ ~bindings[b].attached
        /\ named' = IF id # DefaultId THEN named \cup {id} ELSE named
        /\ IF AttachLoads THEN ForcedLoadWith(p2, NoCb, "attach", p)
           ELSE /\ params' = p2
                /\ hist' = Record("attach")
                /\ lastOp' = Op("attach", p, "-", "returned")
                /\ emitted' = <<>>
                /\ called' = <<>>
                /\ UNCHANGED <<data, error, isAwake, isLoading, isLazy,
                               lastLoadedParams, pending, issued, refetched,
                               mocked>>
        /\ Deliver(bnd)
        /\ UNCHANGED <<loaded, rendered>>

(* the cleanups of both effects when component b unmounts *)
Detach(b) ==
    /\ bindings[b].attached
    /\ bindings' = [bindings EXCEPT ![b] = Unbound]
    /\ named' = IF bindings[b].id # DefaultId THEN named \ {bindings[b].id}
                ELSE named
    /\ hist' = Record("detach")
    /\ lastOp' = Op("detach", Undef, "-", "returned")
    /\ emitted' = <<>>
    /\ called' = <<>>
    /\ UNCHANGED <<fields, pending, issued, refetched, mocked, loaded, rendered>>

(* updateObservable(name, d) *)
UpdateObservable(name, d) ==
    /\ hist' = Record("updateObservable")
    /\ called' = <<>>
    /\ IF name \in named THEN
          /\ isAwake' = AwakeAfterSetData(d)
          /\ data' = d
          /\ emitted' = <<SetDataNote(d)>>
          /\ lastOp' = Op("updateObservable", d, name, "returned")
          /\ UNCHANGED <<error, isLoading, isLazy, params, lastLoadedParams,
                         pending, issued, refetched, mocked>>
       ELSE
          /\ emitted' = <<>>
          /\ lastOp' = Op("updateObservable", d, name, "threw")
          /\ UNCHANGED <<fields, pending, issued, refetched, mocked>>
    /\ Listeners

AttachStep ==
    \E b \in Bindings : \E p \in HookParams : \E id \in TestIds : Attach(b, p, id)
DetachStep == \E b \in Bindings : Detach(b)
UpdateStep ==
    \E id \in TestIds \ {DefaultId} : \E d \in {Undef, Seed} :
        UpdateObservable(id, d)

(* Components that mount and unmount around one instance, which the caller
   may also have made lazy *)
NextHook ==
    \/ AttachStep
    \/ DetachStep
    \/ UpdateStep
    \/ Lazy
    \/ SetParamsStep
    \/ Refetch(NoCb)
    \/ ResolveStep
    \/ RejectStep

SpecHook == Init /\ [][NextHook]_vars

(* Components that give no identifier, around an instance whose data the
   caller may also set *)
NextAttach ==
    \/ \E b \in Bindings : \E p \in HookParams : Attach(b, p, DefaultId)
    \/ DetachStep
    \/ Lazy
    \/ SetParamsStep
    \/ Refetch(NoCb)
    \/ \E d \in {Falsy, Seed} : SetData(d)
    \/ ResolveStep
    \/ RejectStep

SpecAttach == Init /\ [][NextAttach]_vars

(* useAction: its testId, the default one *)
ActionId == "default-action"

(* useAction in component b: useObservable(factory, undefined, testId) *)
MountAction(b) == Attach(b, Undef, ActionId)

(* useAction, actionBase: the params it sets *)
\* (an action that forgot setParams: ActionParamsKept)
ActionParamsKept(p) == params
ActionParams(p) == p

(* the callable useAction returned to component b, called with props p while
   the component's completion callback is cb: actionBase(p).do(cb) *)
UseAction(b, p, cb) ==
    /\ bindings[b].attached
    /\ bindings[b].id = ActionId
    /\ ForcedLoadWith(ActionParams(p), cb, "action", p)
    /\ Listeners

UseActionStep ==
    \E b \in Bindings : \E p \in ParamVals : \E cb \in CbKinds :
        UseAction(b, p, cb)

(* Components that use one instance as an action *)
NextAction ==
    \/ \E b \in Bindings : MountAction(b)
    \/ DetachStep
    \/ UseActionStep
    \/ Lazy
    \/ Refetch(NoCb)
    \/ ResolveStep
    \/ RejectStep

SpecAction == Init /\ [][NextAction]_vars

(* ObservableLoader, one render with observe = {loading: isLoading, error} *)
RenderLoader ==
    LET isFirstLoad == ~loaded
    IN  /\ loaded' = TRUE
        /\ rendered' = IF isFirstLoad /\ isLoading THEN "loadingContent"
                       ELSE IF error # Undef THEN "errorContent"
                       ELSE "children"
        /\ hist' = Record("render")
        /\ lastOp' = Op("render", Undef, "-", "returned")
        /\ emitted' = <<>>
        /\ called' = <<>>
        /\ UNCHANGED <<fields, pending, issued, refetched, mocked, bindings,
                       named>>

(* A loader that renders, again and again, an instance that loads *)
NextLoader ==
    \/ RenderLoader
    \/ SetParamsStep
    \/ LoadStep
    \/ Reload
    \/ SetDataStep
    \/ ResolveStep
    \/ RejectStep

SpecLoader == Init /\ [][NextLoader]_vars

----------------------------------------------------------------------------
(* Properties *)

InFlight == BagCardinality(pending)
NoteTypes == [i \in DOMAIN emitted |-> emitted[i].type]
Results == {ResultOf(p) : p \in ParamVals}

\* the instance is in the Errored state left by a rejected call
Errored == error \in RejectVals /\ ~isLoading

\* C1: two calls of load() on an instance whose params were never set issue
\* exactly one underlying call in total.
C1_TwoLoadsIssueOne == hist = <<"load", "load">> => issued = 1

\* the two calls of load() have been made on the fresh instance
C1_Witness == hist = <<"load", "load">> /\ params = Undef

\* C2 as stated: after n calls of load(true) (reload), n underlying calls have
\* been issued, whatever completions happened in between.
C2_EveryReloadIssues ==
    (hist # Overflow /\ \A i \in DOMAIN hist : hist[i] \in {"reload", "resolve", "reject"})
        => issued = Cardinality({i \in DOMAIN hist : hist[i] = "reload"})

\* C2 amended: a call of load(true) (reload, do) issues a new underlying call
\* exactly when isLoading is false and lastLoadedParams is not the sentinel,
\* whether or not params equal lastLoadedParams; otherwise it issues none.
C2_ForcedLoadIssues ==
    [][lastOp'.op \in {"reload", "do"} =>
          IF ~isLoading /\ lastLoadedParams # Mocking
          THEN issued' = issued + 1 /\ InFlight' = InFlight + 1
          ELSE issued' = issued /\ pending' = pending]_vars

\* two reloads with the params never changed in between, both issued
C2_Witness ==
    /\ hist = <<"reload", "resolve", "reload">>
    /\ params = lastLoadedParams
    /\ issued = 2

\* C3 as stated: at most one underlying request is in flight, whatever
\* operations (refetch included) the caller uses.
C3_AtMostOneInFlight == InFlight <= 1

\* C3 amended: when the caller does not use refetch, at most one underlying
\* request is in flight, and it is in flight exactly while isLoading is true.
C3_AtMostOneInFlightNoRefetch ==
    ~refetched =>
        /\ InFlight \in {0, 1}
        /\ isLoading <=> InFlight = 1

\* a forced load arrived while a request was in flight, and was dropped
C3_Witness ==
    /\ ~refetched
    /\ hist = <<"reload", "do">>
    /\ InFlight = 1
    /\ issued = 1

\* C4: handling a rejection leaves data as it was, stores the rejection value
\* as error, clears isLoading and dispatches one "error" notification and no
\* "data" notification.
C4_RejectKeepsData ==
    [][lastOp'.op = "reject" =>
          /\ data' = data
          /\ error' = lastOp'.arg
          /\ error' \in RejectVals
          /\ isLoading' = FALSE
          /\ emitted' = <<Note("error", data, error', FALSE, FALSE)>>]_vars

\* a rejection handled while data of an earlier load is present
C4_Witness ==
    /\ lastOp.op = "reject"
    /\ data \in Results
    /\ error \in RejectVals
    /\ ~isLoading

C6_DataNoteIsLast ==
    lastOp.op = "resolve" =>
        \A i \in DOMAIN emitted :
            emitted[i].type = "data" =>
                /\ emitted[i].data = lastOp.arg
                /\ emitted[i].error = Undef
                /\ emitted[i].isLoading = FALSE
                /\ (called # <<>> => emitted[i].cbDone)

\* a resolution of a load-issued request has dispatched "data"
C6_Witness ==
    /\ lastOp.op = "resolve"
    /\ lastOp.src = "load"
    /\ NoteTypes = <<"data">>

\* C7 as stated: in the Errored state a call of load() or of reload() issues a
\* new underlying call and moves the instance to Loading.
C7_LoadRetriesAfterError ==
    [][(Errored /\ lastOp'.op \in {"load", "reload"}) =>
          (issued' = issued + 1 /\ isLoading')]_vars

\* C7 amended: handling a rejection issues no call; in the Errored state
\* reload() issues a new call and moves the instance to Loading unless
\* lastLoadedParams is the sentinel, and load() does so only if params differ
\* from lastLoadedParams, being a no-op otherwise.
C7_RetryAfterError ==
    [][/\ lastOp'.op = "reject" => (issued' = issued /\ InFlight' = InFlight - 1)
       /\ (Errored /\ lastOp'.op \in {"load", "reload"}) =>
             IF /\ lastLoadedParams # Mocking
                /\ (lastOp'.op = "reload" \/ params # lastLoadedParams)
             THEN /\ issued' = issued + 1
                  /\ isLoading'
                  /\ error' = Undef
                  /\ NoteTypes' = <<"loading">>
             ELSE /\ UNCHANGED <<data, error, isLoading, params,
                                 lastLoadedParams, pending, issued>>
                  /\ emitted' = <<>>]_vars

\* a reload after a rejection has issued the second call
C7_Witness ==
    /\ hist = <<"reload", "reject", "reload">>
    /\ isLoading
    /\ error = Undef
    /\ issued = 2
    /\ InFlight = 1

\* C8: a refetch, from its call through the handling of its completion, never
\* changes isLoading and dispatches no "loading" notification.
C8_RefetchLeavesLoading ==
    [][(\/ lastOp'.op = "refetch"
        \/ (lastOp'.op \in {"resolve", "reject"} /\ lastOp'.src = "refetch")) =>
          /\ isLoading' = isLoading
          /\ \A i \in DOMAIN emitted' : emitted'[i].type # "loading"]_vars

\* the completion of a refetch was handled while a load was in flight
C8_Witness ==
    /\ lastOp.op \in {"resolve", "reject"}
    /\ lastOp.src = "refetch"
    /\ \E r \in BagToSet(pending) : r.src = "load"

\* C9 as stated: after a resolution has been handled, ensured returns.
C9_EnsuredAfterResolve ==
    lastOp.op = "resolve" => (isAwake /\ Truthy(data))

\* C9 amended: ensured throws exactly when the instance is not awake or data
\* is falsy, and changes no state; right after the handling of a resolution
\* with truthy data it returns.
C9_Ensured ==
    [][/\ lastOp'.op = "ensured" =>
             /\ lastOp'.out = (IF ~isAwake \/ data \in {Undef, Falsy}
                               THEN "threw" ELSE "returned")
             /\ UNCHANGED <<fields, pending, issued>>
             /\ emitted' = <<>>
       /\ (lastOp'.op = "resolve" /\ lastOp'.arg \notin {Undef, Falsy}) =>
             (isAwake' /\ data' = lastOp'.arg)]_vars

\* ensured has returned on an instance holding the result of a load
C9_Witness ==
    /\ lastOp.op = "ensured"
    /\ lastOp.out = "returned"
    /\ data \in Results

\* C10 as stated: setData(d) with d empty or undefined leaves isAwake as it
\* was.
C10_SetDataEmptyKeepsAwake ==
    [][(lastOp'.op = "setData" /\ lastOp'.arg \in {Undef, Falsy, EmptyArr}) =>
          isAwake' = isAwake]_vars

\* C10 amended: setData(d) stores d, dispatches exactly one "data"
\* notification before it returns, sets isAwake if d is truthy (an empty array
\* is) and leaves it otherwise, and changes nothing else.
C10_SetData ==
    [][lastOp'.op = "setData" =>
          /\ data' = lastOp'.arg
          /\ emitted' = <<Note("data", data', error, isLoading, FALSE)>>
          /\ isAwake' = (isAwake \/ lastOp'.arg \notin {Undef, Falsy})
          /\ UNCHANGED <<error, isLoading, params, lastLoadedParams,
                         pending, issued>>]_vars

\* a fresh instance seeded with an empty array is awake
C10_Witness ==
    /\ hist = <<"setData">>
    /\ data = EmptyArr
    /\ isAwake
    /\ NoteTypes = <<"data">>

LoadOps == {"load", "reload", "do", "awaken"}

\* C11 as stated: once lastLoadedParams has held the sentinel, no call of load,
\* reload, do or awaken issues an underlying call or dispatches "loading", and one that
\* carries a callback invokes it with the cached data when data is present.
C11_MockingShortCircuits ==
    [][mocked =>
          /\ lastOp'.op \in LoadOps =>
                /\ issued' = issued
                /\ \A i \in DOMAIN emitted' : emitted'[i].type # "loading"
          /\ (/\ Truthy(data)
              /\ \E cb \in CbKinds \ {NoCb} : LoadOp(cb) \/ Do(cb)) =>
                called' = <<data>>]_vars

\* C11 amended: while lastLoadedParams holds the sentinel, no call of load,
\* reload, do or awaken issues an underlying call or dispatches "loading", and
\* one that carries a callback and is made while isLoading is false invokes it
\* with the cached data when data is truthy; the sentinel stays until a
\* refetch replaces it with params.
C11_WhileMocking ==
    [][lastLoadedParams = Mocking =>
          /\ lastOp'.op \in LoadOps =>
                /\ issued' = issued
                /\ pending' = pending
                /\ \A i \in DOMAIN emitted' : emitted'[i].type # "loading"
          /\ (/\ Truthy(data)
              /\ ~isLoading
              /\ \E cb \in CbKinds \ {NoCb} : LoadOp(cb) \/ Do(cb)) =>
                called' = <<data>>
          /\ lastOp'.op # "refetch" => lastLoadedParams' = Mocking]_vars

\* do(cb) on an instance holding the sentinel has replayed the cached data
C11_Witness ==
    /\ lastLoadedParams = Mocking
    /\ lastOp.op = "do"
    /\ Truthy(data)
    /\ called = <<data>>
    /\ InFlight = 0

\* hist holds nothing but calls of awaken and of setData and completions
OnlyAwakenSoFar ==
    /\ hist # Overflow
    /\ \A i \in DOMAIN hist : hist[i] \in {"awaken", "setData", "resolve", "reject"}

\* C12: awaken() on an awake instance changes no state; on an instance that is
\* not awake it performs the forced load and leaves it awake; an awake instance
\* stays awake, so that any number of awaken() calls, interleaved with
\* completions and setData, issue at most one underlying call.
C12_AwakenIdempotent ==
    [][/\ lastOp'.op = "awaken" =>
             IF isAwake
             THEN /\ UNCHANGED <<fields, pending, issued>>
                  /\ emitted' = <<>>
                  /\ called' = <<>>
             ELSE /\ isAwake'
                  /\ lastLoadedParams # Mocking =>
                        (issued' = issued + 1 /\ isLoading')
       /\ isAwake => isAwake'
       /\ OnlyAwakenSoFar' => issued' <= 1]_vars

\* a second awaken() after the first one's load has completed issued nothing
C12_Witness ==
    /\ hist = <<"awaken", "resolve", "awaken">>
    /\ issued = 1
    /\ InFlight = 0

\* C18: isAwake is true only if a load has begun (load, reload, do or awaken
\* issued an underlying call) or setData was called with non-empty data; as
\* isAwake starts false, it may become true only in such a step (the setData
\* of a resolution included).
C18_AwakeOnlyAfterLoadOrData ==
    [][(~isAwake /\ isAwake') =>
          \/ (lastOp'.op \in LoadOps /\ issued' = issued + 1)
          \/ (lastOp'.op \in {"setData", "resolve"} /\ Truthy(lastOp'.arg))]_vars

\* load() has made an instance awake without issuing anything
C18_Witness ==
    /\ hist = <<"load">>
    /\ isAwake
    /\ issued = 0

\* C19: when every issued call eventually resolves or rejects, isLoading, once
\* true, eventually becomes false; and whenever isLoading is true at least one
\* underlying request is in flight and isAwake is true.
C19_LoadingEnds ==
    /\ [](isLoading => (InFlight >= 1 /\ isAwake))
    /\ isLoading ~> ~isLoading

\* a load is in progress
C19_Witness ==
    /\ isLoading
    /\ lastOp.op \in LoadOps
    /\ \E r \in BagToSet(pending) : r.src = "load"

\* C20: with setParams, load, reload, do, refetch and resolutions only,
\* whenever no request is in flight and at least one has resolved, data is the
\* result of the underlying call made with lastLoadedParams.
C20_DataOfLastLoadedParams ==
    (InFlight = 0 /\ issued > 0) => data \in ResolveVals(lastLoadedParams)

\* two requests made with different params are in flight together
C20_Witness ==
    \E r1, r2 \in BagToSet(pending) :
        /\ r1.src = "load"
        /\ r2.src = "refetch"
        /\ r1.p # r2.p
        /\ lastLoadedParams = r2.p

----------------------------------------------------------------------------
Attached == {b \in Bindings : bindings[b].attached}
HookOps == {"attach", "detach", "resolve", "reject"}

\* C13 as stated: once a handler has finished, the meta of every attached
\* component equals the observable's (data, error, isLoading)
C13_MetaMirrorsObservable ==
    \A b \in Attached : bindings[b].meta = FieldsMeta

\* C13, the case the claim names: an attached component after a successful
\* load, its meta still saying isLoading
C13_Witness ==
    /\ lastOp.op = "resolve"
    /\ lastOp.out = "returned"
    /\ ~isLoading
    /\ \E b \in Attached : bindings[b].meta.isLoading

\* C14: attaching calls load(true) exactly when the instance is neither awake
\* nor lazy: then it wakes the instance and, unless lastLoadedParams is the
\* mocking sentinel, issues one underlying call; otherwise attaching issues
\* nothing.  Awake stays awake and lazy stays lazy, so whatever components
\* attach and detach, a fresh non-lazy instance gets one call from attaching
\* and a lazy one none.
C14_AttachLoadsOnce ==
    [][/\ lastOp'.op = "attach" =>
             IF ~isAwake /\ ~isLazy
             THEN /\ isAwake'
                  /\ lastLoadedParams # Mocking =>
                        /\ issued' = issued + 1
                        /\ isLoading'
                        /\ lastLoadedParams' = params'
             ELSE /\ issued' = issued
                  /\ pending' = pending
                  /\ UNCHANGED <<data, error, isAwake, isLoading, isLazy,
                                 lastLoadedParams>>
       /\ isAwake => isAwake'
       /\ isLazy => isLazy'
       /\ (\A i \in DOMAIN hist' : hist'[i] \in HookOps) =>
             issued' = IF hist' = <<>> THEN 0 ELSE 1
       /\ (/\ hist' # <<>>
           /\ hist'[1] = "lazy"
           /\ \A i \in DOMAIN hist' : i > 1 => hist'[i] \in HookOps) =>
             issued' = 0]_vars

\* C14's case: two components attached to and one detached from a fresh
\* instance, which got its one call from the first
C14_Witness ==
    /\ hist = <<"attach", "attach", "detach">>
    /\ issued = 1
    /\ Attached # {}

\* C15 as stated: updateObservable(name, d) sets the data exactly when a
\* component that gave that identifier is attached, and throws otherwise
C15_UpdateIffAttached ==
    lastOp.op = "updateObservable" =>
        (lastOp.out = "returned" <=>
            \E b \in Attached : bindings[b].id = lastOp.src)

\* C15's case: updateObservable throws while a component that gave the
\* identifier is attached
C15_Witness ==
    /\ lastOp.op = "updateObservable"
    /\ lastOp.out = "threw"
    /\ \E b \in Attached : bindings[b].id = lastOp.src

----------------------------------------------------------------------------
\* C16 as stated: every call of the action with props p sets params to p and
\* issues one underlying call with p that carries a callback
C16_ActionAlwaysIssues ==
    [][lastOp'.op = "action" =>
          /\ params' = lastOp'.arg
          /\ issued' = issued + 1
          /\ \E cb \in CbKinds :
                pending' =
                    pending (+) SetToBag({Request(lastOp'.arg, cb, "load")})]_vars

\* C16: every call of the action with props p sets params to p; unless a load
\* is in progress or lastLoadedParams is the mocking sentinel it issues one
\* underlying call with p that carries a callback, and a call that resolves
\* invokes the callback it carries with the result.  While a load is in
\* progress the call of the action changes nothing but params; with the
\* sentinel it issues nothing.
C16_ActionForcesLoad ==
    [][/\ lastOp'.op = "action" =>
             /\ params' = lastOp'.arg
             /\ IF isLoading
                THEN UNCHANGED <<data, error, isAwake, isLoading, isLazy,
                                 lastLoadedParams, pending, issued>>
                ELSE IF lastLoadedParams = Mocking
                THEN /\ issued' = issued
                     /\ pending' = pending
                ELSE /\ issued' = issued + 1
                     /\ \E cb \in CbKinds :
                           pending' = pending (+)
                               SetToBag({Request(lastOp'.arg, cb, "load")})
                     /\ isLoading'
                     /\ lastLoadedParams' = lastOp'.arg
       /\ lastOp'.op = "resolve" =>
             \A r \in BagToSet(pending) :
                (pending' = pending (-) SetToBag({r}) /\ r.cb # NoCb) =>
                    called' = <<lastOp'.arg>>]_vars

\* C16's case: on a lazy instance the action's call, the only call issued,
\* has resolved and the callback got its result
C16_Witness ==
    /\ isLazy
    /\ issued = 1
    /\ ~refetched
    /\ lastOp.op = "resolve"
    /\ lastOp.out = "returned"
    /\ lastOp.arg = ResultOf(params)
    /\ called = <<lastOp.arg>>

----------------------------------------------------------------------------
\* the first underlying call of the instance has not settled
FirstLoadPending == isLoading /\ issued = 1 /\ InFlight = 1

\* C17 as stated: a render returns the loading content while the first load
\* is pending, else the error content when an error is present, else the
\* children
C17_LoaderShowsState ==
    lastOp.op = "render" =>
        rendered = IF FirstLoadPending THEN "loadingContent"
                   ELSE IF error # Undef THEN "errorContent"
                   ELSE "children"

\* C17's case: a later render of the loader while the first load is pending
\* returns the children
C17_Witness ==
    /\ hist = <<"reload", "render", "render">>
    /\ FirstLoadPending
    /\ rendered = "children"

============================================================================
